---- MODULE Spec2Model ----
(***************************************************************************)
(* A model of stuck_tool.py: the series loader, the contiguous-window      *)
(* scanner, the run analyser used by `diagnose`, the threshold advisor     *)
(* (`suggest`) and the verifier (`verify`).                                *)
(*                                                                         *)
(* Numbers.  Coordinates, metrics and thresholds are fixed-point integers  *)
(* counted in quanta; QuantaPerMicro quanta make 10^-6, the resolution of  *)
(* the "{:.6f}" format.  An arithmetic result that is not a whole number   *)
(* of quanta is rounded to the nearest one, as a float operation rounds to *)
(* the nearest representable value.  Coordinates are finite numbers.       *)
(***************************************************************************)
EXTENDS Integers, Sequences, FiniteSets, TLC

\* ------------------------------------------------------------- bounds
\* Steps of the richly enumerated single series range over -1..MaxStep.
MaxStep == 4
\* Entries of the richly enumerated single series.
MaxLen == 5
\* --window ranges over 1..MaxWindow.
MaxWindow == 3
\* Files matched by one glob, failing files among them.
MaxFiles == 3
\* Files matched by the two globs together, in the two-sided corpora.
MaxPair == 2
\* Fixed-point resolution: quanta per 10^-6.
QuantaPerMicro == 10

Steps == (0 - 1) .. MaxStep
\* Coordinates (quanta) of the multi-file corpora: differences below and
\* above the print resolution.
Coords == {0, 2, 6, 4 * QuantaPerMicro}
\* --threshold values (quanta) given on the command line.
Thresholds == {0, 2, 2 * QuantaPerMicro}

\* ------------------------------------------------------------ helpers
Abs(a) == IF a < 0 THEN 0 - a ELSE a

RECURSIVE Sum(_)
Sum(s) == IF s = <<>> THEN 0 ELSE Head(s) + Sum(Tail(s))

Front(s) == SubSeq(s, 1, Len(s) - 1)

\* num / den rounded to the nearest integer, ties to even (num >= 0, den > 0).
RoundHalfEven(num, den) ==
    LET q == num \div den
        r == num % den
    IN IF 2 * r < den THEN q
       ELSE IF 2 * r > den THEN q + 1
       ELSE IF q % 2 = 0 THEN q ELSE q + 1

\* ------------------------------------------------- load_series_from_json
\* list.sort(key=step) is stable: an entry goes after the entries whose step
\* is smaller or equal.
RECURSIVE InsertByStep(_, _)
InsertByStep(sorted, item) ==
    IF sorted = <<>> THEN <<item>>
    ELSE IF Head(sorted).step <= item.step
         THEN <<Head(sorted)>> \o InsertByStep(Tail(sorted), item)
         ELSE <<item>> \o sorted

RECURSIVE SortByStep(_)
SortByStep(s) ==
    IF s = <<>> THEN <<>> ELSE InsertByStep(SortByStep(Front(s)), s[Len(s)])

\* A file: [path, dotJson, kind, locations].  kind is "unreadable" (open or
\* json.load raises), "nolocations", "notlist" or "list"; an entry of
\* locations is [step, x, z, coercible].
LoadSeriesFromJson(src) ==
    IF src.kind = "unreadable" THEN [ok |-> FALSE, series |-> <<>>]
    ELSE IF src.kind = "nolocations" \/ src.kind = "notlist"
         THEN [ok |-> FALSE, series |-> <<>>]
    ELSE IF \E i \in DOMAIN src.locations : ~src.locations[i].coercible
         THEN [ok |-> FALSE, series |-> <<>>]
    ELSE [ok |-> TRUE,
          series |-> SortByStep([i \in DOMAIN src.locations |->
                         [step |-> src.locations[i].step,
                          x |-> src.locations[i].x,
                          z |-> src.locations[i].z]])]

\* --------------------------------------------- contiguous_window_metrics
\* statistics.pstdev: sqrt(sum((v - mean)^2) / n), to the nearest quantum.
\* With S = n*sum(v^2) - sum(v)^2 the value is sqrt(S)/n.
PStdev(vals) ==
    LET n == Len(vals)
        S == n * Sum([i \in DOMAIN vals |-> vals[i] * vals[i]]) - Sum(vals) * Sum(vals)
        top == Sum([i \in DOMAIN vals |-> Abs(vals[i])])
    IN CHOOSE m \in 0 .. top :
          /\ 4 * S < (2 * n * m + n) * (2 * n * m + n)
          /\ (m = 0 \/ (2 * n * m - n) * (2 * n * m - n) <= 4 * S)

\* {s: (x, z) for s, x, z in series}: a later entry of a step replaces an
\* earlier one.
ByStep(series) ==
    [s \in {series[i].step : i \in DOMAIN series} |->
        LET i == CHOOSE i \in DOMAIN series :
                    /\ series[i].step = s
                    /\ \A j \in DOMAIN series : series[j].step = s => j <= i
        IN <<series[i].x, series[i].z>>]

WindowMetric(by_step, start, end) ==
    LET xs == [k \in 1 .. (end - start + 1) |-> by_step[start + k - 1][1]]
        zs == [k \in 1 .. (end - start + 1) |-> by_step[start + k - 1][2]]
        sx == PStdev(xs)
        sz == PStdev(zs)
    IN IF sx >= sz THEN sx ELSE sz

\* One candidate start of the for loop: the window, or nothing when a step of
\* it is missing.
WindowAt(by_step, window, start) ==
    LET end == start + window - 1
        ok == \A s \in start .. end : s \in DOMAIN by_step
    IN IF ~ok THEN <<>>
       ELSE <<[start |-> start, end |-> end, metric |-> WindowMetric(by_step, start, end)]>>

\* Mutant of WindowsFrom: the later starts are yielded first.
RECURSIVE WindowsFromDescending(_, _, _, _)
WindowsFromDescending(by_step, window, start, stop) ==
    IF start >= stop THEN <<>>
    ELSE WindowsFromDescending(by_step, window, start + 1, stop)
            \o WindowAt(by_step, window, start)

\* for start in range(start, stop)
RECURSIVE WindowsFrom(_, _, _, _)
WindowsFrom(by_step, window, start, stop) ==
    IF start >= stop THEN <<>>
    ELSE WindowAt(by_step, window, start) \o WindowsFrom(by_step, window, start + 1, stop)

\* Mutant of ContiguousWindowMetrics: the range stops one start early.
ContiguousWindowMetricsShortRange(series, window) ==
    IF series = <<>> THEN <<>>
    ELSE LET min_step == series[1].step
             max_step == series[Len(series)].step
         IN WindowsFrom(ByStep(series), window, min_step, max_step - window + 1)

ContiguousWindowMetrics(series, window) ==
    IF series = <<>> THEN <<>>
    ELSE LET min_step == series[1].step
             max_step == series[Len(series)].step
         IN WindowsFrom(ByStep(series), window, min_step, max_step - window + 2)

\* ------------------------------------------------- scan_glob_for_metrics
\* sorted(glob.glob(...)): the matched files, a set, in path order.
RECURSIVE SortedGlob(_)
SortedGlob(files) ==
    IF files = {} THEN <<>>
    ELSE LET f == CHOOSE f \in files : \A g \in files : f.path <= g.path
         IN <<f>> \o SortedGlob(files \ {f})

\* One path of the loop: skipped unless it ends in .json, skipped with a
\* warning when the load raises, else its windows tagged with the path.
ScanPath(src, window) ==
    IF ~src.dotJson THEN <<>>
    ELSE LET loaded == LoadSeriesFromJson(src)
         IN IF ~loaded.ok THEN <<>>
            ELSE LET ws == ContiguousWindowMetrics(loaded.series, window)
                 IN [k \in DOMAIN ws |->
                        [path |-> src.path, start |-> ws[k].start,
                         end |-> ws[k].end, metric |-> ws[k].metric]]

\* Mutant of ScanPaths: a load that raises ends the scan.
RECURSIVE ScanPathsAbortOnFailure(_, _)
ScanPathsAbortOnFailure(paths, window) ==
    IF paths = <<>> THEN <<>>
    ELSE IF Head(paths).dotJson /\ ~LoadSeriesFromJson(Head(paths)).ok THEN <<>>
    ELSE ScanPath(Head(paths), window) \o ScanPathsAbortOnFailure(Tail(paths), window)

RECURSIVE ScanPaths(_, _)
ScanPaths(paths, window) ==
    IF paths = <<>> THEN <<>>
    ELSE ScanPath(Head(paths), window) \o ScanPaths(Tail(paths), window)

ScanGlobForMetrics(files, window) == ScanPaths(SortedGlob(files), window)

\* The paths the scan prints "[WARN]" for.
ScanWarnings(files) ==
    {f.path : f \in {g \in files : g.dotJson /\ ~LoadSeriesFromJson(g).ok}}

\* ------------------------------------------------- longest_contiguous_run
\* Mutant of RunLoop: cur is not reset when a run ends.
RECURSIVE RunLoopNoReset(_, _, _, _)
RunLoopNoReset(steps, i, cur, longest) ==
    IF i > Len(steps) THEN longest
    ELSE IF steps[i] = steps[i - 1] + 1
         THEN RunLoopNoReset(steps, i + 1, cur + 1,
                             IF cur + 1 > longest THEN cur + 1 ELSE longest)
         ELSE RunLoopNoReset(steps, i + 1, cur, longest)

\* for i in range(1, len(steps)), carrying cur and longest.
RECURSIVE RunLoop(_, _, _, _)
RunLoop(steps, i, cur, longest) ==
    IF i > Len(steps) THEN longest
    ELSE IF steps[i] = steps[i - 1] + 1
         THEN RunLoop(steps, i + 1, cur + 1,
                      IF cur + 1 > longest THEN cur + 1 ELSE longest)
         ELSE RunLoop(steps, i + 1, 1, longest)

\* Mutant of LongestContiguousRun: longest starts at 0.
LongestContiguousRunFromZero(steps) ==
    IF steps = <<>> THEN 0 ELSE RunLoop(steps, 2, 1, 0)

LongestContiguousRun(steps) ==
    IF steps = <<>> THEN 0 ELSE RunLoop(steps, 2, 1, 1)

\* --------------------------------------------------------- missing_ranges
\* Mutant of GapLoop: a gap ends at the next present step.
RECURSIVE GapLoopOffByOne(_, _)
GapLoopOffByOne(steps, i) ==
    IF i > Len(steps) THEN <<>>
    ELSE LET expected_next == steps[i - 1] + 1
         IN (IF steps[i] > expected_next
             THEN <<<<expected_next, steps[i]>>>>
             ELSE <<>>) \o GapLoopOffByOne(steps, i + 1)

RECURSIVE GapLoop(_, _)
GapLoop(steps, i) ==
    IF i > Len(steps) THEN <<>>
    ELSE LET expected_next == steps[i - 1] + 1
         IN (IF steps[i] > expected_next
             THEN <<<<expected_next, steps[i] - 1>>>>
             ELSE <<>>) \o GapLoop(steps, i + 1)

MissingRanges(steps) ==
    IF steps = <<>> THEN <<>> ELSE GapLoop(steps, 2)

\* sorted(set(steps))
RECURSIVE SortedSet(_)
SortedSet(S) ==
    IF S = {} THEN <<>>
    ELSE LET m == CHOOSE m \in S : \A k \in S : m <= k
         IN <<m>> \o SortedSet(S \ {m})

\* ------------------------------------------------------------ cmd_suggest
NaN == [isnan |-> TRUE, val |-> 0]
Num(v) == [isnan |-> FALSE, val |-> v]

\* max(generator, default=nan) and min(generator, default=nan)
RECURSIVE MaxMetric(_)
MaxMetric(ms) ==
    IF ms = <<>> THEN NaN
    ELSE LET rest == MaxMetric(Tail(ms))
         IN IF rest.isnan \/ Head(ms).metric >= rest.val
            THEN Num(Head(ms).metric) ELSE rest

RECURSIVE MinMetric(_)
MinMetric(ms) ==
    IF ms = <<>> THEN NaN
    ELSE LET rest == MinMetric(Tail(ms))
         IN IF rest.isnan \/ Head(ms).metric <= rest.val
            THEN Num(Head(ms).metric) ELSE rest

\* (stuck_max + unstuck_min) / 2.0
Midpoint(a, b) == RoundHalfEven(a + b, 2)

\* "{:.6f}".format(v): the printed decimal, as a count of 10^-6.
Format6(v) == RoundHalfEven(v, QuantaPerMicro)

\* argparse type=float on a decimal with six places: back to quanta.
ParseThreshold(text) == text * QuantaPerMicro

\* Mutant of SuggestOutput: stuck_max <= unstuck_min counts as separated.
SuggestOutputNonStrict(sm, um) ==
    LET stuck_max == MaxMetric(sm)
        unstuck_min == MinMetric(um)
        both == ~(stuck_max.isnan \/ unstuck_min.isnan)
        sep == both /\ stuck_max.val <= unstuck_min.val
    IN [warnStuck |-> sm = <<>>,
        warnUnstuck |-> um = <<>>,
        stuck_max |-> stuck_max,
        unstuck_min |-> unstuck_min,
        suggested |-> sep,
        text |-> IF sep THEN Format6(Midpoint(stuck_max.val, unstuck_min.val)) ELSE 0,
        overlap |-> both /\ ~sep]

\* The lines cmd_suggest prints after the two scans.
SuggestOutput(sm, um) ==
    LET stuck_max == MaxMetric(sm)
        unstuck_min == MinMetric(um)
        both == ~(stuck_max.isnan \/ unstuck_min.isnan)
        sep == both /\ stuck_max.val < unstuck_min.val
    IN [warnStuck |-> sm = <<>>,
        warnUnstuck |-> um = <<>>,
        stuck_max |-> stuck_max,
        unstuck_min |-> unstuck_min,
        suggested |-> sep,
        text |-> IF sep THEN Format6(Midpoint(stuck_max.val, unstuck_min.val)) ELSE 0,
        overlap |-> both /\ ~sep]

NoAdvice ==
    [warnStuck |-> FALSE, warnUnstuck |-> FALSE, stuck_max |-> NaN,
     unstuck_min |-> NaN, suggested |-> FALSE, text |-> 0, overlap |-> FALSE]

\* ------------------------------------------------------------- cmd_verify
StuckOk(m, t) == m <= t
\* Mutant of UnstuckOk: a metric equal to the threshold passes.
UnstuckOkNonStrict(m, t) == m >= t

UnstuckOk(m, t) == m > t

\* Mutant of Accuracy: the ratio is not scaled to a percentage.
AccuracyAsFraction(total_ok, total) ==
    IF total > 0 THEN RoundHalfEven(total_ok * 100, total) ELSE 0

\* acc = (total_ok / total * 100.0) if total > 0 else 0.0, as "{acc:.2f}"
\* prints it: a count of hundredths of a percent.
Accuracy(total_ok, total) ==
    IF total > 0 THEN RoundHalfEven(total_ok * 10000, total) ELSE 0

\* ------------------------------------------------------------------ state
VARIABLES
    stuckFiles,      \* files matched by --stuck-glob
    unstuckFiles,    \* files matched by --unstuck-glob
    window,          \* --window
    pc,              \* where the run is
    stuck_metrics,   \* scan result of the stuck side
    unstuck_metrics, \* scan result of the unstuck side
    warned,          \* paths the two scans warned about
    advice,          \* what cmd_suggest printed
    thr,             \* --threshold of the verify run
    fromAdvice,      \* the verify run was given the printed suggestion
    i,               \* index of the next window in a verify loop
    ok_stuck, ng_stuck, ok_unstuck, ng_unstuck,
    acc,             \* ACC of the summary, in hundredths of a percent
    vwarn,           \* sides cmd_verify warned about
    dkind,           \* cmd_diagnose: 1 stuck, 2 unstuck
    dpaths,          \* cmd_diagnose: paths of the kind still to visit
    any_file,
    report           \* cmd_diagnose: what it printed, per file

vars == <<stuckFiles, unstuckFiles, window, pc, stuck_metrics, unstuck_metrics,
          warned, advice, thr, fromAdvice, i, ok_stuck, ng_stuck, ok_unstuck,
          ng_unstuck, acc, vwarn, dkind, dpaths, any_file, report>>

inputs == <<stuckFiles, unstuckFiles, window>>
scanVars == <<stuck_metrics, unstuck_metrics, warned>>
verifyVars == <<thr, fromAdvice, i, ok_stuck, ng_stuck, ok_unstuck, ng_unstuck, acc, vwarn>>
diagVars == <<dkind, dpaths, any_file, report>>

\* ----------------------------------------------------------------- inputs
Entry(s, cx, cz) == [step |-> s, x |-> cx, z |-> cz, coercible |-> TRUE]

File(p, suffix, k, locs) == [path |-> p, dotJson |-> suffix, kind |-> k, locations |-> locs]

\* One series with up to MaxLen entries over Steps, duplicates allowed, listed
\* in ascending or descending step order; x tells the entries apart.
AscSteps(n) == {s \in [1 .. n -> Steps] : \A k \in 1 .. n - 1 : s[k] <= s[k + 1]}

RichLocations ==
    UNION {UNION {{[k \in 1 .. n |-> Entry(s[k], 2 * k, 0)],
                   [k \in 1 .. n |-> Entry(s[n + 1 - k], 2 * k, 0)]} : s \in AscSteps(n)}
           : n \in 0 .. MaxLen}

\* Entries at steps 1, 2, ... with the given x, z = 0.
Walk(xs) == [k \in DOMAIN xs |-> Entry(k, xs[k], 0)]

\* File contents that make a load fail, one per way load_series_from_json
\* raises, and a well-formed file whose name does not end in .json.
BadCatalog ==
    {[dotJson |-> TRUE, kind |-> "unreadable", locations |-> <<>>],
     [dotJson |-> TRUE, kind |-> "nolocations", locations |-> <<>>],
     [dotJson |-> TRUE, kind |-> "notlist", locations |-> <<>>],
     [dotJson |-> TRUE, kind |-> "list",
      locations |-> <<Entry(1, 0, 0), [step |-> 2, x |-> 0, z |-> 0, coercible |-> FALSE]>>],
     [dotJson |-> FALSE, kind |-> "list", locations |-> Walk(<<0, 6>>)]}

\* Well-formed files: one with a gap (moving in z), one three steps long.
MixedCatalog ==
    {[dotJson |-> TRUE, kind |-> "list",
      locations |-> <<Entry(1, 0, 0), Entry(2, 0, 6), Entry(4, 0, 0)>>],
     [dotJson |-> TRUE, kind |-> "list", locations |-> Walk(<<0, 2, 6>>)]}

\* Two-step files, one per coordinate difference.
GoodCatalog ==
    MixedCatalog \cup
    {[dotJson |-> TRUE, kind |-> "list", locations |-> Walk(<<0, c>>)] : c \in Coords}

Globs(n, catalog) ==
    {{File(p, c[p].dotJson, c[p].kind, c[p].locations) : p \in 1 .. n} : c \in [1 .. n -> catalog]}

\* The inputs: one richly enumerated series; or one glob of up to MaxFiles
\* files, failing ones among them; or two globs of well-formed files.
Init ==
    /\ \/ /\ stuckFiles \in {{File(1, TRUE, "list", l)} : l \in RichLocations}
          /\ unstuckFiles = {}
       \/ \E n \in 0 .. MaxFiles :
             /\ stuckFiles \in Globs(n, BadCatalog \cup MixedCatalog)
             /\ unstuckFiles = {}
       \/ \E n \in 0 .. MaxPair, m \in 0 .. MaxPair :
             /\ n + m <= MaxPair
             /\ stuckFiles \in Globs(n, GoodCatalog)
             /\ unstuckFiles \in Globs(m, GoodCatalog)
    /\ window \in 0 .. MaxWindow
    /\ pc = "start"
    /\ stuck_metrics = <<>>
    /\ unstuck_metrics = <<>>
    /\ warned = <<{}, {}>>
    /\ advice = NoAdvice
    /\ thr = 0
    /\ fromAdvice = FALSE
    /\ i = 1
    /\ ok_stuck = 0 /\ ng_stuck = 0 /\ ok_unstuck = 0 /\ ng_unstuck = 0
    /\ acc = 0
    /\ vwarn = {}
    /\ dkind = 1
    /\ dpaths = <<>>
    /\ any_file = FALSE
    /\ report = <<>>

\* ------------------------------------------------------------------- main
\* if args.window <= 0: raise SystemExit
UsageError ==
    /\ pc = "start"
    /\ window <= 0
    /\ pc' = "usage_error"
    /\ UNCHANGED <<inputs, scanVars, advice, verifyVars, diagVars>>

\* The two scans every scanning command starts with.
Scan ==
    /\ stuck_metrics' = ScanGlobForMetrics(stuckFiles, window)
    /\ unstuck_metrics' = ScanGlobForMetrics(unstuckFiles, window)
    /\ warned' = <<ScanWarnings(stuckFiles), ScanWarnings(unstuckFiles)>>

CmdSuggest ==
    /\ pc = "start"
    /\ window > 0
    /\ Scan
    /\ advice' = SuggestOutput(stuck_metrics', unstuck_metrics')
    /\ pc' = "suggested"
    /\ UNCHANGED <<inputs, verifyVars, diagVars>>

\* cmd_verify up to its first loop.
VerifyBegin(t, given) ==
    /\ Scan
    /\ thr' = t
    /\ fromAdvice' = given
    /\ i' = 1
    /\ ok_stuck' = 0 /\ ng_stuck' = 0 /\ ok_unstuck' = 0 /\ ng_unstuck' = 0
    /\ acc' = 0
    /\ vwarn' = IF stuck_metrics' = <<>> THEN {"stuck"} ELSE {}
    /\ pc' = "verify_stuck"
    /\ UNCHANGED <<inputs, advice, diagVars>>

CmdVerify ==
    /\ pc = "start"
    /\ window > 0
    /\ \E t \in Thresholds : VerifyBegin(t, FALSE)

\* verify run again on the same corpora and window with the printed suggestion.
CmdVerifySuggested ==
    /\ pc = "suggested"
    /\ advice.suggested
    /\ VerifyBegin(ParseThreshold(advice.text), TRUE)

VerifyStuck ==
    /\ pc = "verify_stuck"
    /\ i <= Len(stuck_metrics)
    /\ IF StuckOk(stuck_metrics[i].metric, thr)
       THEN ok_stuck' = ok_stuck + 1 /\ UNCHANGED ng_stuck
       ELSE ng_stuck' = ng_stuck + 1 /\ UNCHANGED ok_stuck
    /\ i' = i + 1
    /\ UNCHANGED <<inputs, scanVars, advice, thr, fromAdvice, ok_unstuck, ng_unstuck,
                   acc, vwarn, pc, diagVars>>

VerifyStuckEnd ==
    /\ pc = "verify_stuck"
    /\ i > Len(stuck_metrics)
    /\ vwarn' = IF unstuck_metrics = <<>> THEN vwarn \cup {"unstuck"} ELSE vwarn
    /\ i' = 1
    /\ pc' = "verify_unstuck"
    /\ UNCHANGED <<inputs, scanVars, advice, thr, fromAdvice, ok_stuck, ng_stuck,
                   ok_unstuck, ng_unstuck, acc, diagVars>>

VerifyUnstuck ==
    /\ pc = "verify_unstuck"
    /\ i <= Len(unstuck_metrics)
    /\ IF UnstuckOk(unstuck_metrics[i].metric, thr)
       THEN ok_unstuck' = ok_unstuck + 1 /\ UNCHANGED ng_unstuck
       ELSE ng_unstuck' = ng_unstuck + 1 /\ UNCHANGED ok_unstuck
    /\ i' = i + 1
    /\ UNCHANGED <<inputs, scanVars, advice, thr, fromAdvice, ok_stuck, ng_stuck,
                   acc, vwarn, pc, diagVars>>

VerifySummary ==
    /\ pc = "verify_unstuck"
    /\ i > Len(unstuck_metrics)
    /\ LET total_ok == ok_stuck + ok_unstuck
           total_ng == ng_stuck + ng_unstuck
           total == total_ok + total_ng
       IN acc' = Accuracy(total_ok, total)
    /\ pc' = "verified"
    /\ UNCHANGED <<inputs, scanVars, advice, thr, fromAdvice, i, ok_stuck, ng_stuck,
                   ok_unstuck, ng_unstuck, vwarn, diagVars>>

\* ----------------------------------------------------------- cmd_diagnose
KindFiles(k) == IF k = 1 THEN stuckFiles ELSE unstuckFiles

\* What cmd_diagnose prints for a loaded series.
DiagnoseLines(k, src, series) ==
    LET steps == [j \in DOMAIN series |-> series[j].step]
        unique_steps == SortedSet({steps[j] : j \in DOMAIN steps})
        lc == LongestContiguousRun(unique_steps)
        gaps == MissingRanges(unique_steps)
    IN [kind |-> k, path |-> src.path, error |-> FALSE,
        total |-> Len(steps), unique |-> Len(unique_steps),
        lc |-> lc, short |-> lc < window,
        gaps |-> gaps,
        preview |-> SubSeq(gaps, 1, IF Len(gaps) > 5 THEN 5 ELSE Len(gaps)),
        more |-> Len(gaps) > 5]

DiagnoseErrorLine(k, src) ==
    [kind |-> k, path |-> src.path, error |-> TRUE, total |-> 0, unique |-> 0,
     lc |-> 0, short |-> FALSE, gaps |-> <<>>, preview |-> <<>>, more |-> FALSE]

CmdDiagnose ==
    /\ pc = "start"
    /\ window > 0
    /\ pc' = "diag_glob"
    /\ dkind' = 1
    /\ UNCHANGED <<inputs, scanVars, advice, verifyVars, dpaths, any_file, report>>

\* paths = sorted(glob.glob(...)); if not paths: continue
DiagnoseGlob ==
    /\ pc = "diag_glob"
    /\ dkind <= 2
    /\ LET paths == SortedGlob(KindFiles(dkind))
       IN IF paths = <<>>
          THEN /\ dkind' = dkind + 1
               /\ UNCHANGED <<pc, dpaths>>
          ELSE /\ dpaths' = paths
               /\ pc' = "diag_path"
               /\ UNCHANGED dkind
    /\ UNCHANGED <<inputs, scanVars, advice, verifyVars, any_file, report>>

DiagnoseSkip ==
    /\ pc = "diag_path"
    /\ dpaths # <<>>
    /\ ~Head(dpaths).dotJson
    /\ dpaths' = Tail(dpaths)
    /\ UNCHANGED <<inputs, scanVars, advice, verifyVars, pc, dkind, any_file, report>>

DiagnoseLoadError ==
    /\ pc = "diag_path"
    /\ dpaths # <<>>
    /\ Head(dpaths).dotJson
    /\ ~LoadSeriesFromJson(Head(dpaths)).ok
    /\ any_file' = TRUE
    /\ report' = Append(report, DiagnoseErrorLine(dkind, Head(dpaths)))
    /\ dpaths' = Tail(dpaths)
    /\ UNCHANGED <<inputs, scanVars, advice, verifyVars, pc, dkind>>

DiagnoseFile ==
    /\ pc = "diag_path"
    /\ dpaths # <<>>
    /\ Head(dpaths).dotJson
    /\ LoadSeriesFromJson(Head(dpaths)).ok
    /\ any_file' = TRUE
    /\ report' = Append(report,
           DiagnoseLines(dkind, Head(dpaths), LoadSeriesFromJson(Head(dpaths)).series))
    /\ dpaths' = Tail(dpaths)
    /\ UNCHANGED <<inputs, scanVars, advice, verifyVars, pc, dkind>>

DiagnoseNextKind ==
    /\ pc = "diag_path"
    /\ dpaths = <<>>
    /\ dkind' = dkind + 1
    /\ pc' = "diag_glob"
    /\ UNCHANGED <<inputs, scanVars, advice, verifyVars, dpaths, any_file, report>>

DiagnoseEnd ==
    /\ pc = "diag_glob"
    /\ dkind > 2
    /\ pc' = "diagnosed"
    /\ UNCHANGED <<inputs, scanVars, advice, verifyVars, diagVars>>

Next ==
    \/ UsageError
    \/ CmdSuggest
    \/ CmdVerify
    \/ CmdVerifySuggested
    \/ VerifyStuck
    \/ VerifyStuckEnd
    \/ VerifyUnstuck
    \/ VerifySummary
    \/ CmdDiagnose
    \/ DiagnoseGlob
    \/ DiagnoseSkip
    \/ DiagnoseLoadError
    \/ DiagnoseFile
    \/ DiagnoseNextKind
    \/ DiagnoseEnd

Spec == Init /\ [][Next]_vars

\* ------------------------------------------------------------- properties
\* What the properties are stated in: sets of steps and of files, not the
\* loops above.
ScannedPcs == {"suggested", "verify_stuck", "verify_unstuck", "verified"}

\* A file whose load raises.
Failing(f) ==
    \/ f.kind # "list"
    \/ \E k \in DOMAIN f.locations : ~f.locations[k].coercible

WellFormed(files) == {f \in files : f.dotJson /\ ~Failing(f)}

StepSet(f) == {f.locations[k].step : k \in DOMAIN f.locations}

Present(P, start, n) == \A s \in start .. (start + n - 1) : s \in P

\* The windows of one path in a scan result, in result order.
OfPath(M, p) == SelectSeq(M, LAMBDA r : r.path = p)

Sides == {<<stuckFiles, stuck_metrics>>, <<unstuckFiles, unstuck_metrics>>}

\* C1: after a scan, a window (start, end) of a file is in the result if and
\* only if end = start + window - 1 and every step of start..end is present
\* in the file: no window with a missing step, and none of the windows of
\* `window` consecutive present steps left out.
C1_WindowsAreExactlyTheContiguousRanges ==
    pc \in ScannedPcs =>
        \A side \in Sides : \A f \in WellFormed(side[1]) :
            LET P == StepSet(f)
                W == OfPath(side[2], f.path)
            IN /\ \A k \in DOMAIN W :
                    /\ W[k].end = W[k].start + window - 1
                    /\ Present(P, W[k].start, window)
               /\ \A start \in P :
                    Present(P, start, window) => \E k \in DOMAIN W : W[k].start = start

\* A sparse series that is not zero-based, scanned with window >= 2: one
\* candidate start is yielded, another inside the candidate range is skipped
\* for a missing step.
C1_Witness ==
    /\ pc \in ScannedPcs
    /\ window >= 2
    /\ \E f \in WellFormed(stuckFiles) :
          LET P == StepSet(f)
          IN /\ 0 \notin P
             /\ \E a \in P, b \in P :
                   /\ Present(P, a, window)
                   /\ \E k \in DOMAIN stuck_metrics : stuck_metrics[k].start = a
                   /\ ~Present(P, b, window)
                   /\ \E c \in P : c >= b + window - 1

\* C2: the windows of a series appear in the result in strictly increasing
\* order of start, so no start appears twice.
C2_StartsStrictlyIncrease ==
    pc \in ScannedPcs =>
        \A side \in Sides : \A f \in side[1] :
            LET W == OfPath(side[2], f.path)
            IN \A k \in DOMAIN W : \A l \in DOMAIN W : k < l => W[k].start < W[l].start

\* A series with at least three windows in the result.
C2_Witness ==
    /\ pc \in ScannedPcs
    /\ \E f \in stuckFiles : Len(OfPath(stuck_metrics, f.path)) >= 3

\* The windows a verify loop has classified so far.
DoneStuck ==
    IF pc = "verify_stuck" THEN i - 1
    ELSE IF pc \in {"verify_unstuck", "verified"} THEN Len(stuck_metrics) ELSE 0

DoneUnstuck ==
    IF pc = "verify_unstuck" THEN i - 1
    ELSE IF pc = "verified" THEN Len(unstuck_metrics) ELSE 0

\* C3: in verify, the four counters are the classified windows counted by
\* side and verdict: a stuck-side window is OK iff metric <= threshold, an
\* unstuck-side window is OK iff metric > threshold, NG otherwise; so each
\* window adds one to exactly one counter.
C3_CountersFollowTheThreshold ==
    pc \in {"verify_stuck", "verify_unstuck", "verified"} =>
        /\ ok_stuck = Cardinality({k \in 1 .. DoneStuck : stuck_metrics[k].metric <= thr})
        /\ ng_stuck = Cardinality({k \in 1 .. DoneStuck : stuck_metrics[k].metric > thr})
        /\ ok_unstuck = Cardinality({k \in 1 .. DoneUnstuck : unstuck_metrics[k].metric > thr})
        /\ ng_unstuck = Cardinality({k \in 1 .. DoneUnstuck : unstuck_metrics[k].metric <= thr})
        /\ ok_stuck + ng_stuck + ok_unstuck + ng_unstuck = DoneStuck + DoneUnstuck

\* A finished verify run with a metric equal to the threshold on both sides:
\* OK on the stuck side, NG on the unstuck side.
C3_Witness ==
    /\ pc = "verified"
    /\ \E k \in DOMAIN stuck_metrics : stuck_metrics[k].metric = thr
    /\ \E k \in DOMAIN unstuck_metrics : unstuck_metrics[k].metric = thr
    /\ ok_stuck >= 1
    /\ ng_unstuck >= 1
    /\ thr > 0

\* C4: when suggest prints a threshold (both sides have windows and
\* stuckMax < unstuckMin), verify run on the same corpora and window with
\* that threshold ends with NG = 0 on both sides.
C4_SuggestedThresholdSeparates ==
    (pc = "verified" /\ fromAdvice) => (ng_stuck = 0 /\ ng_unstuck = 0)

Metrics(M) == {M[k].metric : k \in DOMAIN M}

Separated == \A a \in Metrics(stuck_metrics) : \A b \in Metrics(unstuck_metrics) : a < b

\* C5: suggest prints a threshold only when both sides have windows and every
\* stuck metric is below every unstuck metric; with windows on both sides and
\* stuckMax >= unstuckMin it reports the overlap and no threshold; with no
\* windows on a side it warns about that side and prints neither.
C5_SuggestionOnlyWhenSeparated ==
    pc = "suggested" =>
        /\ advice.suggested =>
              (stuck_metrics # <<>> /\ unstuck_metrics # <<>> /\ Separated)
        /\ (stuck_metrics # <<>> /\ unstuck_metrics # <<>> /\ ~Separated) =>
              (advice.overlap /\ ~advice.suggested)
        /\ stuck_metrics = <<>> =>
              (advice.warnStuck /\ ~advice.suggested /\ ~advice.overlap)
        /\ unstuck_metrics = <<>> =>
              (advice.warnUnstuck /\ ~advice.suggested /\ ~advice.overlap)

\* Overlapping corpora, several windows a side: the overlap is reported.
C5_Witness ==
    /\ pc = "suggested"
    /\ Len(stuck_metrics) >= 2
    /\ Len(unstuck_metrics) >= 2
    /\ \E a \in Metrics(stuck_metrics) : \E b \in Metrics(unstuck_metrics) : a > b
    /\ advice.overlap

\* C6: a file whose load raises does not end the scan: the result is the
\* result of scanning the well-formed files alone, it holds no window of a
\* failing file, the windows of every well-formed file are all there, and
\* files follow each other in path order.
C6_FailingFilesAreSkipped ==
    pc \in ScannedPcs =>
        \A side \in Sides :
            /\ side[2] = ScanGlobForMetrics(WellFormed(side[1]), window)
            /\ \A k \in DOMAIN side[2] :
                  \E f \in WellFormed(side[1]) : f.path = side[2][k].path
            /\ \A f \in WellFormed(side[1]) : \A start \in StepSet(f) :
                  Present(StepSet(f), start, window) =>
                     \E k \in DOMAIN side[2] :
                        side[2][k].path = f.path /\ side[2][k].start = start
            /\ \A k \in DOMAIN side[2] : \A l \in DOMAIN side[2] :
                  k < l => side[2][k].path <= side[2][l].path

\* A failing file between two well-formed files, each of which has windows
\* in the result.
C6_Witness ==
    /\ pc \in ScannedPcs
    /\ \E f \in stuckFiles, g \in stuckFiles, h \in stuckFiles :
          /\ f.path < g.path /\ g.path < h.path
          /\ g.dotJson /\ Failing(g)
          /\ g.path \in warned[1]
          /\ OfPath(stuck_metrics, f.path) # <<>>
          /\ OfPath(stuck_metrics, h.path) # <<>>

\* The file a report line is about.
FileOf(e) == CHOOSE f \in KindFiles(e.kind) : f.path = e.path

HasRun(P, k) == \E s \in P : Present(P, s, k)

\* The length of the longest run of consecutive integers in P.
MaxRun(P) ==
    IF P = {} THEN 0
    ELSE CHOOSE k \in 1 .. Cardinality(P) :
            HasRun(P, k) /\ \A j \in (k + 1) .. Cardinality(P) : ~HasRun(P, j)

\* C7: on the sorted distinct steps of a series, longest_contiguous_run is the
\* length of the longest run of consecutive integers: 0 for no steps, 1 for
\* one, else the largest k with s, ..., s+k-1 all present.
C7_LongestRun ==
    \A n \in DOMAIN report :
        ~report[n].error => report[n].lc = MaxRun(StepSet(FileOf(report[n])))

\* The longest run is the last run of the list, after a shorter one.
C7_Witness ==
    \E n \in DOMAIN report :
        LET P == StepSet(FileOf(report[n]))
        IN /\ ~report[n].error
           /\ report[n].lc = 3
           /\ {MaxStep - 2, MaxStep - 1, MaxStep} \subseteq P
           /\ {0 - 1, 0} \subseteq P
           /\ 1 \notin P

\* The integers from the smallest to the largest element of P.
Span(P) ==
    IF P = {} THEN {}
    ELSE (CHOOSE lo \in P : \A s \in P : lo <= s) .. (CHOOSE hi \in P : \A s \in P : s <= hi)

\* The maximal gaps of P: ranges a..b of absent integers with a-1 and b+1
\* present.
MaximalGaps(P) ==
    {g \in (Span(P) \X Span(P)) :
        /\ g[1] <= g[2]
        /\ g[1] - 1 \in P
        /\ g[2] + 1 \in P
        /\ \A s \in g[1] .. g[2] : s \notin P}

\* C8: on the sorted distinct steps of a series, missing_ranges is the list
\* of maximal gaps (firstMissing, lastMissing) in ascending order: the pairs
\* cover exactly the absent integers between the smallest and the largest
\* step, and no steps or no gap gives the empty list.
C8_MissingRanges ==
    \A n \in DOMAIN report :
        ~report[n].error =>
            LET P == StepSet(FileOf(report[n]))
                gaps == report[n].gaps
            IN /\ {gaps[k] : k \in DOMAIN gaps} = MaximalGaps(P)
               /\ \A k \in DOMAIN gaps : \A l \in DOMAIN gaps :
                     k < l => gaps[k][2] < gaps[l][1]
               /\ \A k \in DOMAIN gaps : gaps[k][1] <= gaps[k][2]
               /\ {s \in Span(P) : \E k \in DOMAIN gaps : gaps[k][1] <= s /\ s <= gaps[k][2]}
                     = Span(P) \ P
               /\ \A k \in DOMAIN gaps : gaps[k][1] \in Span(P) /\ gaps[k][2] \in Span(P)

\* Two gaps, the first of one missing step and the second of several.
C8_Witness ==
    \E n \in DOMAIN report :
        /\ ~report[n].error
        /\ Len(report[n].gaps) = 2
        /\ report[n].gaps[1][1] = report[n].gaps[1][2]
        /\ report[n].gaps[2][1] < report[n].gaps[2][2]

\* C9: the accuracy of the summary is correct / total * 100, correct being
\* stuck OK + unstuck OK and total the windows of both sides; it is 0 when
\* there is no window.  (ACC is printed with two decimals: the value is the
\* quotient to the nearest hundredth of a percent.)
C9_Accuracy ==
    pc = "verified" =>
        LET correct == ok_stuck + ok_unstuck
            total == Len(stuck_metrics) + Len(unstuck_metrics)
        IN /\ total = 0 => acc = 0
           /\ total > 0 => 2 * Abs(acc * total - 10000 * correct) <= total

\* A finished run with one window of three classified correctly.
C9_Witness ==
    /\ pc = "verified"
    /\ Len(stuck_metrics) + Len(unstuck_metrics) = 3
    /\ ok_stuck + ok_unstuck = 1
    /\ acc = 3333

\* C10: diagnose prints "no run of `window` consecutive steps" for a series
\* (duplicate steps allowed) exactly when the scanner yields no window for it.
C10_DiagnoseAgreesWithScanner ==
    \A n \in DOMAIN report :
        ~report[n].error =>
            (report[n].short <=>
                ContiguousWindowMetrics(LoadSeriesFromJson(FileOf(report[n])).series, window) = <<>>)

\* A series with a duplicated step and as many distinct steps as the window
\* is long, yet no window: the message is printed.
C10_Witness ==
    \E n \in DOMAIN report :
        /\ ~report[n].error
        /\ report[n].total > report[n].unique
        /\ report[n].unique >= window
        /\ report[n].short
        /\ window >= 2
====
